---- MODULE Spec2Model ----
(***************************************************************************)
(* Rancage-Engine, Core/Memory: the linear arena (ArenaAllocator) and the  *)
(* double-buffered frame allocator (FrameAllocator) as state machines.     *)
(*                                                                         *)
(* Addresses and size_t values are machine words of WordBits bits; every   *)
(* size_t / uintptr_t operation of the source is taken modulo 2^WordBits.  *)
(* The C library (malloc, realloc) is the environment: it answers with a   *)
(* block that lies inside the address space, or with NULL.                 *)
(***************************************************************************)
EXTENDS Integers, Sequences, FiniteSets, TLC

\* ------------------------------------------------------------------ words

\* width of size_t and uintptr_t in the model (64 or 32 in a build)
WordBits == 8

\* allocations recorded per reset epoch of the arena
MaxAllocs == 2

\* growth events of the arena in one run
MaxGrows == 1

\* width of the frame allocator's uint32_t offset counters in the model
OffBits == 5

\* BeginFrame calls followed on one frame allocator
MaxBegins == 2

\* chunks one pool is followed to
MaxChunks == 2

\* calls of Free on an address already freed that are followed
MaxStale == 1

RECURSIVE Pow2(_)
Pow2(n) == IF n = 0 THEN 1 ELSE 2 * Pow2(n - 1)

\* number of size_t values: arithmetic wraps at WordModulus
WordModulus == Pow2(WordBits)

\* largest size_t value
SizeMax == WordModulus - 1

NULL == 0

Max(a, b) == IF a >= b THEN a ELSE b

Min(a, b) == IF a <= b THEN a ELSE b

\* unsigned addition, subtraction and doubling in size_t
WAdd(a, b) == (a + b) % WordModulus

WSub(a, b) == (a - b + WordModulus) % WordModulus

WMul2(a) == (2 * a) % WordModulus

\* bitwise and / not on machine words
RECURSIVE BitAndN(_, _, _)
BitAndN(x, y, n) ==
    IF n = 0 THEN 0
    ELSE (IF x % 2 = 1 /\ y % 2 = 1 THEN 1 ELSE 0)
         + 2 * BitAndN(x \div 2, y \div 2, n - 1)

BitAnd(x, y) == BitAndN(x, y, WordBits)

BitNot(x) == SizeMax - x

\* the rounding without its "+ (alignment - 1)"
AlignUpTruncating(addr, alignment) == BitAnd(addr, BitNot(WSub(alignment, 1)))

\* (addr + (alignment - 1)) & ~(alignment - 1)
AlignUp(addr, alignment) ==
    BitAnd(WAdd(addr, WSub(alignment, 1)), BitNot(WSub(alignment, 1)))

\* ------------------------------------------------------------------ inputs

\* request sizes: small ones, and sizes near the largest size_t value
ArenaSizes == {8, 40, SizeMax - 55}

\* power-of-two alignments (the default 8, and a larger one)
ArenaAligns == {8, 32}

\* initial capacities / sizes of caller-supplied storage
ArenaCaps == {16, 64}

\* addresses malloc / realloc may answer with (16-byte aligned)
HeapBases == {16, 32}

\* addresses of caller-supplied storage
BorrowBases == {32, 40}

\* number of values of an offset counter
OffModulus == Pow2(OffBits)

\* per-buffer sizes given to the FrameAllocator constructor
FrameBufferSizes == {16, 48}

\* a per-buffer size the offset counter cannot hold
WideBufferSizes == {OffModulus + 16}

\* addresses malloc answers with for two buffers of that size
WideBases0 == {64}

WideBases1 == {64 + 2 * OffModulus}

\* request sizes and alignments (16 is the default alignment)
FrameSizes == {1, 8, 16}

FrameAligns == {8, 16}

\* request sizes where cycles are followed
CycleSizes == {8, 16}

\* addresses malloc may answer with for the two frame buffers
FrameBases0 == {NULL, 64, 80}

FrameBases1 == {NULL, 144}

\* a block of n bytes at base lies inside the address space
BlockFits(base, n) == base + n < WordModulus

\* sizeof(void*)
PtrSize == 8

\* element sizes and slots per chunk given to the PoolAllocator constructor
PoolElemSizes == {0, 24}

PoolChunkCounts == {0, 2}

\* addresses malloc may answer with for a chunk
PoolBases == {32, 96}

\* a word read from memory the pool never wrote
PoolGarbage == {NULL, 200}

\* threads calling into one pool
PoolThreads == {1, 2}

\* sizes asked of the DebugAllocator
TrackSizes == {8, 100, 200}

\* addresses malloc may answer with for a tracked allocation
TrackBases == {8, 120}

\* a block the program got from malloc directly, unknown to the tracker
ForeignBlock == [addr |-> 240, size |-> 8]

\* sizes and sites where frees of freed addresses are followed
StaleSizes == {8}

StaleSites == {[file |-> "Game.cpp", line |-> 10]}

\* threads calling into the DebugAllocator
TrackThreads == {1, 2}

\* the file and line arguments of Allocate (__FILE__, __LINE__ under RG_NEW)
TrackSites == {[file |-> "Game.cpp", line |-> 10],
               [file |-> "Mesh.cpp", line |-> 20]}

\* ------------------------------------------------------------------ state

VARIABLES
    head,        \* ArenaAllocator::_head
    tail,        \* ArenaAllocator::_tail
    capacity,    \* ArenaAllocator::_capacity
    owned,       \* ArenaAllocator::_owned
    aOp,         \* path the last arena call took: init, fit, grow, fail, reset
    aRet,        \* value the last Allocate returned
    aReq,        \* <<size, alignment>> of the last Allocate
    aEnv,        \* what realloc answered in the last Allocate: none, refused, granted
    aGrown,      \* Size() right after Grow returned true in the last Allocate
    allocs,      \* allocations returned since the last Reset, where their bytes are now
    clean,       \* every Allocate since the last Reset fitted in the capacity
    first,       \* the first allocation ever returned
    relocated,   \* the buffer moved after the first allocation was returned
    replay,      \* the last call was an Allocate right after a Reset, a first allocation on record
    grows,       \* growth events so far
    scen         \* progress through the 64-byte end-to-end scenario

arenaVars == <<head, tail, capacity, owned, aOp, aRet, aReq, aEnv, aGrown,
               allocs, clean, first, relocated, replay, grows, scen>>

VARIABLES
    buffers,     \* FrameAllocator::_buffers
    offsets,     \* FrameAllocator::_offsets
    current,     \* FrameAllocator::_current
    bufferSize,  \* FrameAllocator::_bufferSize
    fOp,         \* path the last frame call took: init, begin, ok, fail
    fRet,        \* value the last frame Allocate returned
    fReq,        \* <<size, alignment>> of the last frame Allocate
    begun,       \* BeginFrame has been called
    cycleSum,    \* sizes requested since the last BeginFrame, summed
    cycleOk,     \* every Allocate since the last BeginFrame but the last returned non-null
    begins,      \* BeginFrame calls so far
    watch,       \* one byte range, any, returned non-null since the last BeginFrame
    prevWatch    \* one byte range, any, returned non-null in the cycle before this one

\* FrameAllocator's members and the record of its last call
frameCore == <<buffers, offsets, current, bufferSize, fOp, fRet, fReq>>

\* what is remembered of the requested sizes of one cycle
sumVars == <<begun, cycleSum, cycleOk>>

\* what is remembered of the ranges returned in this cycle and the last
cycleVars == <<begins, watch, prevWatch>>

frameVars == <<frameCore, sumVars, cycleVars>>

VARIABLES
    elemSize,    \* PoolAllocator::_elemSize
    chunkCount,  \* PoolAllocator::_chunkCount
    chunks,      \* PoolAllocator::_chunks
    freeList,    \* PoolAllocator::_freeList
    link,        \* memory: the word stored at each address a link was written to
    mutex,       \* PoolAllocator::_mutex: 0, or the thread holding it
    pc,          \* where each thread is in its call: idle, aCheck, aPop, dPush
    pArg,        \* the pointer each thread passed to Deallocate
    pFault,      \* an access outside the pool's memory ended the process
    live,        \* addresses returned by Allocate and not yet passed to Deallocate
    pOp,         \* the last step: init, lock, grow, pop, push, fault
    pRet,        \* value the last Allocate returned
    pGrew,       \* the call in progress, or the last one, created a chunk
    pPushed,     \* slots the last AllocateChunk pushed on the free list
    peakLive,    \* most addresses live at once since no address was live
    owed,        \* addresses that were live at once when the last of them was deallocated
    served,      \* Allocate calls returned since then
    pStack       \* addresses Deallocate pushed, in order, that no Allocate took since

poolVars == <<elemSize, chunkCount, chunks, freeList, link, mutex, pc, pArg,
              pFault, live, pOp, pRet, pGrew, pPushed, peakLive, owed, served,
              pStack>>

VARIABLES
    tAllocs,     \* DebugAllocator::_allocs: address -> [size, file, line, isArray]
    tTotal,      \* DebugAllocator::_total
    tPeak,       \* DebugAllocator::_peak
    tMutex,      \* DebugAllocator::_mutex: 0, or the thread holding it
    tPc,         \* where each thread is in its call: idle, aLock, aCommit, fBody,
                 \* rBody, nLock
    tLocal,      \* each thread's ptr, size, file, line and isArray; stale: the
                 \* ptr given to Free is one the caller had freed before
    heap,        \* blocks malloc has given out and free has not taken back
    foreign,     \* addresses of blocks in the heap the tracker never saw
    tLive,       \* addresses a successful Allocate returned, not yet passed to Free
    tOp,         \* the last step: init, malloc, allocNull, lock, alloc, freeNull,
                 \* free, freeMismatch, freeUnknown, report, plainNew, abort
    tGiven,      \* for each address of tLive, the arguments its Allocate was called with
    tReport,     \* what ReportLeaks wrote, if the last step was its body
    wired,       \* the build defines _DEBUG: the global operators reach the tracker
    tFault,      \* the process was ended (std::terminate, or std::free on no block)
    tFreed,      \* addresses Allocate returned that were passed to Free at least once
    stales       \* calls of Free so far on an address already freed

\* DebugAllocator's members, its callers and the C heap
trackCore == <<tAllocs, tTotal, tPeak, tMutex, tPc, tLocal, heap, foreign,
               tLive, tOp, tGiven, tReport, wired, tFault>>

\* what is remembered of the addresses already freed
staleVars == <<tFreed, stales>>

trackVars == <<trackCore, staleVars>>

vars == <<arenaVars, frameVars, poolVars, trackVars>>

NoFirst == [addr |-> NULL, size |-> 0, align |-> 0]

NoRange == [addr |-> NULL, size |-> 0]

\* ------------------------------------------------------------------ ArenaAllocator

\* Size(): static_cast<size_t>(_tail - _head)
Size(h, t) == WSub(t, h)

\* Grow storing the new capacity before it looks at realloc's answer
GrowCommitsFirst(h, t, c, o, add, newBuf) ==
    IF ~o
    THEN [ok |-> FALSE, called |-> FALSE, head |-> h, tail |-> t, capacity |-> c]
    ELSE IF newBuf = NULL
         THEN [ok |-> FALSE, called |-> TRUE, head |-> h, tail |-> t,
               capacity |-> WAdd(c, add)]
         ELSE [ok |-> TRUE, called |-> TRUE, head |-> newBuf,
               tail |-> WAdd(newBuf, Size(h, t)), capacity |-> WAdd(c, add)]

\* Grow taking its argument for the new capacity
GrowToAdd(h, t, c, o, add, newBuf) ==
    IF ~o \/ newBuf = NULL
    THEN [ok |-> FALSE, called |-> o, head |-> h, tail |-> t, capacity |-> c]
    ELSE [ok |-> TRUE, called |-> TRUE, head |-> newBuf,
          tail |-> WAdd(newBuf, Size(h, t)), capacity |-> add]

\* Grow setting _tail = newBuf, the used bytes forgotten
GrowDropsUsed(h, t, c, o, add, newBuf) ==
    IF ~o \/ newBuf = NULL
    THEN [ok |-> FALSE, called |-> o, head |-> h, tail |-> t, capacity |-> c]
    ELSE [ok |-> TRUE, called |-> TRUE, head |-> newBuf, tail |-> newBuf,
          capacity |-> WAdd(c, add)]

\* Grow without its "if (!_owned) return false"
GrowIgnoresOwned(h, t, c, o, add, newBuf) ==
    IF newBuf = NULL
    THEN [ok |-> FALSE, called |-> TRUE, head |-> h, tail |-> t, capacity |-> c]
    ELSE [ok |-> TRUE, called |-> TRUE, head |-> newBuf,
          tail |-> WAdd(newBuf, Size(h, t)), capacity |-> WAdd(c, add)]

\* Grow(add) with realloc's answer newBuf; called: realloc was called
Grow(h, t, c, o, add, newBuf) ==
    IF ~o
    THEN [ok |-> FALSE, called |-> FALSE, head |-> h, tail |-> t, capacity |-> c]
    ELSE LET used == Size(h, t)
             newCap == WAdd(c, add)
         IN IF newBuf = NULL
            THEN [ok |-> FALSE, called |-> TRUE, head |-> h, tail |-> t,
                  capacity |-> c]
            ELSE [ok |-> TRUE, called |-> TRUE, head |-> newBuf,
                  tail |-> WAdd(newBuf, used), capacity |-> newCap]

\* the padding Allocate computes before its capacity test
PaddingAt(t, alignment) == WSub(AlignUp(t, alignment), t)

\* the capacity test of Allocate: Size() + padding + size > _capacity
NeedsGrow(h, t, c, size, alignment) ==
    WAdd(WAdd(Size(h, t), PaddingAt(t, alignment)), size) > c

\* the argument Allocate hands to Grow
GrowAdd(t, c, size, alignment) ==
    Max(WMul2(c), WAdd(PaddingAt(t, alignment), size))

\* Allocate(size, alignment) with realloc's answer newBuf
Allocate(h, t, c, o, size, alignment, newBuf) ==
    LET currentAddr == t
        aligned == AlignUp(currentAddr, alignment)
        padding == WSub(aligned, currentAddr)
    IN IF WAdd(WAdd(Size(h, t), padding), size) > c
       THEN LET g == Grow(h, t, c, o, Max(WMul2(c), WAdd(padding, size)), newBuf)
            IN IF ~g.ok
               THEN [ret |-> NULL, head |-> g.head, tail |-> g.tail,
                     capacity |-> g.capacity, path |-> "fail",
                     called |-> g.called, padding |-> padding, grown |-> 0]
               ELSE LET currentAddr2 == g.tail
                        aligned2 == AlignUp(currentAddr2, alignment)
                        padding2 == WSub(aligned2, currentAddr2)
                    IN [ret |-> aligned2, head |-> g.head,
                        tail |-> WAdd(aligned2, size), capacity |-> g.capacity,
                        path |-> "grow", called |-> g.called,
                        padding |-> padding2, grown |-> Size(g.head, g.tail)]
       ELSE [ret |-> aligned, head |-> h, tail |-> WAdd(aligned, size),
             capacity |-> c, path |-> "fit", called |-> FALSE,
             padding |-> padding, grown |-> 0]

\* Reset leaving the tail where it is
ResetKeepsTail(h, t) == t

\* Reset(): _tail = _head
Reset(h, t) == h

\* realloc moves the first min(old, new) bytes of the block to the new block
ReallocBytes(as, oldHead, oldCap, newHead, newCap) ==
    [i \in 1..Len(as) |->
        LET off == as[i].addr - oldHead
        IN [as[i] EXCEPT
              !.addr = WAdd(newHead, WSub(as[i].addr, oldHead)),
              !.live = as[i].live /\ off >= 0
                       /\ off + as[i].size <= Min(oldCap, newCap)]]

\* the bytes [addr, addr+size) lie in the block [h, h+c)
InBlock(h, c, addr, size) == h <= addr /\ addr + size <= h + c

\* what realloc may answer to a request of n bytes
ReallocAnswers(n) == {NULL} \cup {b \in HeapBases : BlockFits(b, n)}

\* the request fits, in unbounded arithmetic: the bytes in use, the bytes up
\* to the next multiple of alignment and size are within the capacity
TrueFit(h, t, c, size, alignment) ==
    h <= t /\ (t - h) + ((alignment - (t % alignment)) % alignment) + size <= c

ScenInit(o, c) == IF o /\ c = 64 THEN 1 ELSE 0

ScenAlloc(s, size, alignment, path) ==
    IF size = 40 /\ alignment = 8
    THEN (IF s = 1 THEN 2
          ELSE IF s = 2 THEN (IF path = "fail" THEN 5 ELSE 3)
          ELSE 0)
    ELSE 0

ScenReset(s) == IF s = 3 THEN 4 ELSE 0

\* explicit ArenaAllocator(size_t initialCapacity): Reserve may find malloc refusing
ArenaInitOwned ==
    \E bytes \in ArenaCaps : \E buf \in ReallocAnswers(bytes) :
        /\ head = buf
        /\ tail = buf
        /\ capacity = (IF buf # NULL THEN bytes ELSE 0)
        /\ owned = TRUE

\* ArenaAllocator(void* memory, size_t size)
ArenaInitBorrowed ==
    \E memory \in BorrowBases : \E size \in ArenaCaps :
        /\ BlockFits(memory, size)
        /\ head = memory
        /\ tail = memory
        /\ capacity = size
        /\ owned = FALSE

ArenaStart ==
    /\ (ArenaInitOwned \/ ArenaInitBorrowed)
    /\ aOp = "init"
    /\ aRet = NULL
    /\ aReq = <<0, 0>>
    /\ aEnv = "none"
    /\ aGrown = 0
    /\ allocs = <<>>
    /\ clean = TRUE
    /\ first = NoFirst
    /\ relocated = FALSE
    /\ replay = FALSE
    /\ grows = 0
    /\ scen = ScenInit(owned, capacity)

ArenaAllocate ==
    \E size \in ArenaSizes : \E alignment \in ArenaAligns :
    LET asks == NeedsGrow(head, tail, capacity, size, alignment)
        newCap == WAdd(capacity, GrowAdd(tail, capacity, size, alignment))
    IN \E newBuf \in (IF asks THEN ReallocAnswers(newCap) ELSE {NULL}) :
       LET r == Allocate(head, tail, capacity, owned, size, alignment, newBuf)
           kept == IF r.path = "grow"
                   THEN ReallocBytes(allocs, head, capacity, r.head, r.capacity)
                   ELSE allocs
       IN /\ Len(allocs) < MaxAllocs
          /\ (r.path = "grow" => grows < MaxGrows)
          /\ head' = r.head
          /\ tail' = r.tail
          /\ capacity' = r.capacity
          /\ owned' = owned
          /\ aOp' = r.path
          /\ aRet' = r.ret
          /\ aReq' = <<size, alignment>>
          /\ aEnv' = (IF ~r.called THEN "none"
                      ELSE IF newBuf = NULL THEN "refused" ELSE "granted")
          /\ aGrown' = r.grown
          /\ allocs' = (IF r.path = "fail" THEN kept
                        ELSE Append(kept,
                               [addr |-> r.ret, size |-> size, align |-> alignment,
                                pad |-> r.padding,
                                live |-> InBlock(r.head, r.capacity, r.ret, size)]))
          /\ clean' = (clean /\ TrueFit(head, tail, capacity, size, alignment))
          /\ first' = (IF first = NoFirst /\ r.path # "fail"
                       THEN [addr |-> r.ret, size |-> size, align |-> alignment]
                       ELSE first)
          /\ relocated' = (relocated \/ (first # NoFirst /\ r.head # head))
          /\ replay' = (aOp = "reset" /\ first # NoFirst)
          /\ grows' = (IF r.path = "grow" THEN grows + 1 ELSE grows)
          /\ scen' = ScenAlloc(scen, size, alignment, r.path)

ArenaReset ==
    /\ tail' = Reset(head, tail)
    /\ aOp' = "reset"
    /\ aRet' = NULL
    /\ aReq' = <<0, 0>>
    /\ aEnv' = "none"
    /\ aGrown' = 0
    /\ allocs' = <<>>
    /\ clean' = TRUE
    /\ scen' = ScenReset(scen)
    /\ replay' = FALSE
    /\ UNCHANGED <<head, capacity, owned, first, relocated, grows>>

\* ------------------------------------------------------------------ FrameAllocator

\* the buffer index as a position in the two-element tuples
Cur(c) == c + 1

\* Allocate refusing a request that fills the buffer exactly (>= for >)
FrameAllocateOffByOne(bufs, offs, cur, bsize, size, alignment) ==
    LET ptr == WAdd(bufs[Cur(cur)], offs[Cur(cur)])
        aligned == AlignUp(ptr, alignment)
        pad == WSub(aligned, ptr)
    IN IF WAdd(WAdd(offs[Cur(cur)], pad), size) >= bsize
       THEN [ret |-> NULL, offsets |-> offs, path |-> "fail"]
       ELSE [ret |-> aligned,
             offsets |-> [offs EXCEPT ![Cur(cur)] =
                            (offs[Cur(cur)] + (WAdd(pad, size) % OffModulus))
                               % OffModulus],
             path |-> "ok"]

\* Allocate(size, alignment) on the active buffer
FrameAllocate(bufs, offs, cur, bsize, size, alignment) ==
    LET base == bufs[Cur(cur)]
        ptr == WAdd(base, offs[Cur(cur)])
        aligned == AlignUp(ptr, alignment)
        pad == WSub(aligned, ptr)
    IN IF WAdd(WAdd(offs[Cur(cur)], pad), size) > bsize
       THEN [ret |-> NULL, offsets |-> offs, path |-> "fail"]
       ELSE [ret |-> aligned,
             offsets |-> [offs EXCEPT ![Cur(cur)] =
                            (offs[Cur(cur)] + (WAdd(pad, size) % OffModulus))
                               % OffModulus],
             path |-> "ok"]

\* BeginFrame clearing the offsets of both buffers
BeginFrameClearsBoth(offs, cur) ==
    [current |-> 1 - cur, offsets |-> <<0, 0>>]

\* BeginFrame(): _current = 1 - _current; _offsets[_current] = 0
BeginFrame(offs, cur) ==
    [current |-> 1 - cur, offsets |-> [offs EXCEPT ![Cur(1 - cur)] = 0]]

\* explicit FrameAllocator(size_t bufferSize) for a size of sizes, malloc
\* answering with an address of bases0 and one of bases1: two mallocs,
\* answers unchecked
FrameStartWith(sizes, bases0, bases1) ==
    /\ bufferSize \in sizes
    /\ buffers \in {<<b0, b1>> : b0 \in bases0, b1 \in bases1}
    /\ offsets = <<0, 0>>
    /\ current = 0
    /\ fOp = "init"
    /\ fRet = NULL
    /\ fReq = <<0, 0>>
    /\ begun = FALSE
    /\ cycleSum = 0
    /\ cycleOk = TRUE
    /\ begins = 0
    /\ watch = NoRange
    /\ prevWatch = NoRange

FrameStart == FrameStartWith(FrameBufferSizes, FrameBases0, FrameBases1)

\* FrameAllocator(bufferSize) with a size beyond the offset counter
WideStart == FrameStartWith(WideBufferSizes, WideBases0, WideBases1)

\* BeginFrame() on the members, with the record of the call
FrameBeginStep ==
    LET r == BeginFrame(offsets, current)
    IN /\ current' = r.current
       /\ offsets' = r.offsets
       /\ fOp' = "begin"
       /\ fRet' = NULL
       /\ fReq' = <<0, 0>>
       /\ UNCHANGED <<buffers, bufferSize>>

\* Allocate(size, alignment) on the members, with the record of the call
FrameAllocStep(size, alignment) ==
    LET r == FrameAllocate(buffers, offsets, current, bufferSize, size, alignment)
    IN /\ offsets' = r.offsets
       /\ fOp' = r.path
       /\ fRet' = r.ret
       /\ fReq' = <<size, alignment>>
       /\ UNCHANGED <<buffers, current, bufferSize>>

\* BeginFrame, the sizes of the cycle it starts being summed
FrameBegin ==
    /\ FrameBeginStep
    /\ begun' = TRUE
    /\ cycleSum' = 0
    /\ cycleOk' = TRUE
    /\ UNCHANGED cycleVars

\* Allocate, its size added to the sum of the cycle
FrameAlloc ==
    \E size \in FrameSizes : \E alignment \in FrameAligns :
       /\ FrameAllocStep(size, alignment)
       /\ cycleSum' = Min(cycleSum + size, bufferSize + 2)
       /\ cycleOk' = (cycleOk /\ (fOp \in {"ok", "fail"} => fRet # NULL))
       /\ UNCHANGED <<begun>>
       /\ UNCHANGED cycleVars

\* BeginFrame, the ranges of the cycle it ends being remembered
CycleBegin ==
    /\ begins < MaxBegins
    /\ FrameBeginStep
    /\ begins' = begins + 1
    /\ prevWatch' = watch
    /\ watch' = NoRange
    /\ UNCHANGED sumVars

\* Allocate, the range it returns being remembered or not
CycleAlloc ==
    \E size \in CycleSizes : \E alignment \in FrameAligns :
       /\ FrameAllocStep(size, alignment)
       /\ watch' \in IF fRet' # NULL
                      THEN {watch, [addr |-> fRet', size |-> size]}
                      ELSE {watch}
       /\ UNCHANGED <<begins, prevWatch>>
       /\ UNCHANGED sumVars

\* ------------------------------------------------------------------ PoolAllocator

\* elemSize * chunkCount and i * elemSize in size_t
WMul(a, b) == (a * b) % WordModulus

\* Align(v, a): (v + (a - 1)) & ~(a - 1)
Align(v, a) == BitAnd(WAdd(v, WSub(a, 1)), BitNot(WSub(a, 1)))

\* *reinterpret_cast<void**>(a) = v
Store(lk, a, v) == (a :> v) @@ lk

\* the pointer-sized word at node lies in the block of bytes bytes at block
InChunk(block, bytes, node) ==
    block # NULL /\ block <= node /\ node + PtrSize <= block + bytes

\* the word at node lies in one of the chunks
InChunks(chs, bytes, node) ==
    \E k \in 1..Len(chs) : InChunk(chs[k], bytes, node)

\* the loop of AllocateChunk stopping one slot short
RECURSIVE PushSlotsOneShort(_, _, _, _, _, _)
PushSlotsOneShort(block, es, cc, i, fl, lk) ==
    IF i + 1 >= cc
    THEN [freeList |-> fl, link |-> lk, pushed |-> i]
    ELSE LET node == WAdd(block, WMul(i, es))
         IN PushSlotsOneShort(block, es, cc, i + 1, node, Store(lk, node, fl))

\* the loop of AllocateChunk from slot i on: node = p + i * _elemSize;
\* *node = _freeList; _freeList = node
RECURSIVE PushSlots(_, _, _, _, _, _)
PushSlots(block, es, cc, i, fl, lk) ==
    IF i >= cc
    THEN [freeList |-> fl, link |-> lk, pushed |-> i]
    ELSE LET node == WAdd(block, WMul(i, es))
         IN PushSlots(block, es, cc, i + 1, node, Store(lk, node, fl))

\* AllocateChunk() with block what malloc answered; wild: one of its stores
\* falls outside the block
AllocateChunk(es, cc, chs, fl, lk, block) ==
    LET bytes == WMul(es, cc)
        r == PushSlots(block, es, cc, 0, fl, lk)
    IN [chunks |-> Append(chs, block),
        freeList |-> r.freeList,
        link |-> r.link,
        pushed |-> r.pushed,
        wild |-> \E i \in 0..(cc - 1) :
                    ~InChunk(block, bytes, WAdd(block, WMul(i, es)))]

\* what malloc may answer for a chunk of bytes bytes: null, or a block apart
\* from the chunks the pool holds
PoolMallocAnswers(bytes, chs) ==
    {NULL} \cup {b \in PoolBases :
                   /\ BlockFits(b, bytes)
                   /\ \A k \in 1..Len(chs) : chs[k] # b}

\* std::lock_guard taking the mutex whoever holds it
LockGuardBarging(m, t) == [ok |-> TRUE, mutex |-> t]

\* std::lock_guard<std::mutex> lock(_mutex): returns once the mutex is free
LockGuard(m, t) ==
    IF m = 0 THEN [ok |-> TRUE, mutex |-> t] ELSE [ok |-> FALSE, mutex |-> m]

\* the words *_freeList may read as
LoadAnswers(chs, bytes, lk, a) ==
    IF a \in DOMAIN lk THEN {lk[a]} ELSE PoolGarbage

\* Deallocate linking ptr in behind the head of the free list
PoolDeallocateBehindHead(fl, lk, ptr) ==
    IF fl = NULL \/ fl \notin DOMAIN lk
    THEN [freeList |-> ptr, link |-> Store(lk, ptr, fl)]
    ELSE [freeList |-> fl, link |-> Store(Store(lk, ptr, lk[fl]), fl, ptr)]

\* Deallocate leaving the free list as it was
PoolDeallocateDropsSlot(fl, lk, ptr) == [freeList |-> fl, link |-> lk]

\* Deallocate(ptr), lines 82-83: *ptr = _freeList; _freeList = ptr
PoolDeallocate(fl, lk, ptr) == [freeList |-> ptr, link |-> Store(lk, ptr, fl)]

\* Allocate(), lines 67-69: p = _freeList; _freeList = *p; return p, with
\* next the word read at p
PoolAllocate(fl, next) == [ret |-> fl, freeList |-> next]

\* the bytes of a slot handed out are the caller's: the word the pool wrote
\* there is no longer known (a slot of no bytes keeps it)
HandOut(lk, es, p) ==
    IF es >= PtrSize THEN [a \in DOMAIN lk \ {p} |-> lk[a]] ELSE lk

\* a sequence without its last entry
ButLast(q) == IF q = <<>> THEN q ELSE SubSeq(q, 1, Len(q) - 1)

\* the observers of live addresses after an Allocate returned p
LiveAfterAllocate(lv, p) == IF p = NULL THEN lv ELSE lv \cup {p}

\* PoolAllocator(elementSize, chunkCount): the members, then AllocateChunk()
PoolStart ==
    \E elementSize \in PoolElemSizes : \E cc \in PoolChunkCounts :
    LET es == Align(elementSize, PtrSize)
    IN \E block \in PoolMallocAnswers(WMul(es, cc), <<>>) :
       LET r == AllocateChunk(es, cc, <<>>, NULL, <<>>, block)
       IN \E fault \in (IF r.wild THEN BOOLEAN ELSE {FALSE}) :
          /\ elemSize = es
          /\ chunkCount = cc
          /\ chunks = r.chunks
          /\ freeList = IF fault THEN NULL ELSE r.freeList
          /\ link = IF fault THEN <<>> ELSE r.link
          /\ pFault = fault
          /\ pPushed = IF fault THEN 0 ELSE r.pushed
          /\ mutex = 0
          /\ pc = [t \in PoolThreads |-> "idle"]
          /\ pArg = [t \in PoolThreads |-> NULL]
          /\ live = {}
          /\ pOp = IF fault THEN "fault" ELSE "init"
          /\ pRet = NULL
          /\ pGrew = FALSE
          /\ peakLive = 0
          /\ owed = 0
          /\ served = 0
          /\ pStack = <<>>

\* Allocate(), line 60: the lock is taken
PoolAllocLock(t) ==
    LET g == LockGuard(mutex, t)
    IN /\ ~pFault
       /\ pc[t] = "idle"
       /\ g.ok
       /\ mutex' = g.mutex
       /\ pc' = [pc EXCEPT ![t] = "aCheck"]
       /\ pOp' = "lock"
       /\ pGrew' = FALSE
       /\ UNCHANGED <<elemSize, chunkCount, chunks, freeList, link, pArg,
                      pFault, live, pRet, pPushed, peakLive, owed, served,
                      pStack>>

\* Allocate(), lines 63-64: if (!_freeList) AllocateChunk()
PoolAllocGrow(t) ==
    /\ ~pFault
    /\ pc[t] = "aCheck"
    /\ freeList = NULL
    /\ Len(chunks) < MaxChunks
    /\ \E block \in PoolMallocAnswers(WMul(elemSize, chunkCount), chunks) :
       LET r == AllocateChunk(elemSize, chunkCount, chunks, freeList, link, block)
       IN \E fault \in (IF r.wild THEN BOOLEAN ELSE {FALSE}) :
          /\ chunks' = r.chunks
          /\ freeList' = IF fault THEN freeList ELSE r.freeList
          /\ link' = IF fault THEN link ELSE r.link
          /\ pPushed' = IF fault THEN 0 ELSE r.pushed
          /\ pFault' = fault
          /\ pOp' = IF fault THEN "fault" ELSE "grow"
    /\ pc' = [pc EXCEPT ![t] = "aPop"]
    /\ pGrew' = TRUE
    /\ pStack' = <<>>
    /\ UNCHANGED <<elemSize, chunkCount, mutex, pArg, live, pRet, peakLive, owed, served>>

\* Allocate(), lines 67-69: p = _freeList; _freeList = *p; return p, the
\* lock released at the return
PoolAllocPop(t) ==
    /\ ~pFault
    /\ \/ pc[t] = "aCheck" /\ freeList # NULL
       \/ pc[t] = "aPop"
    /\ LET bytes == WMul(elemSize, chunkCount)
           wild == ~InChunks(chunks, bytes, freeList)
       IN \E fault \in (IF wild THEN BOOLEAN ELSE {FALSE}) :
          \E next \in LoadAnswers(chunks, bytes, link, freeList) :
          LET r == PoolAllocate(freeList, next)
          IN IF fault
             THEN /\ pFault' = TRUE
                  /\ pOp' = "fault"
                  /\ UNCHANGED <<freeList, link, mutex, pc, live, pRet, peakLive,
                                 owed, served, pStack>>
             ELSE /\ pFault' = FALSE
                  /\ pOp' = "pop"
                  /\ link' = HandOut(link, elemSize, r.ret)
                  /\ pRet' = r.ret
                  /\ freeList' = r.freeList
                  /\ mutex' = 0
                  /\ pc' = [pc EXCEPT ![t] = "idle"]
                  /\ live' = LiveAfterAllocate(live, r.ret)
                  /\ peakLive' = Max(peakLive, Cardinality(live'))
                  /\ served' = Min(served + 1, owed)
                  /\ pStack' = ButLast(pStack)
                  /\ UNCHANGED owed
    /\ UNCHANGED <<elemSize, chunkCount, chunks, pArg, pGrew, pPushed>>

\* Deallocate(ptr), line 80: the lock is taken; ptr is an address this pool
\* returned and no one has passed back since
PoolDeallocLock(t) ==
    \E ptr \in live :
    LET g == LockGuard(mutex, t)
    IN /\ ~pFault
       /\ pc[t] = "idle"
       /\ g.ok
       /\ mutex' = g.mutex
       /\ pc' = [pc EXCEPT ![t] = "dPush"]
       /\ pArg' = [pArg EXCEPT ![t] = ptr]
       /\ live' = live \ {ptr}
       /\ pOp' = "lock"
       /\ UNCHANGED <<elemSize, chunkCount, chunks, freeList, link, pFault,
                      pRet, pGrew, pPushed, peakLive, owed, served, pStack>>

\* Deallocate(ptr), lines 82-84: *ptr = _freeList; _freeList = ptr, the lock
\* released at the return
PoolDeallocPush(t) ==
    /\ ~pFault
    /\ pc[t] = "dPush"
    /\ LET wild == ~InChunks(chunks, WMul(elemSize, chunkCount), pArg[t])
           r == PoolDeallocate(freeList, link, pArg[t])
       IN \E fault \in (IF wild THEN BOOLEAN ELSE {FALSE}) :
             IF fault
             THEN /\ pFault' = TRUE
                  /\ pOp' = "fault"
                  /\ UNCHANGED <<freeList, link, mutex, pc, pArg, peakLive, owed,
                                 served, pStack>>
             ELSE /\ pFault' = FALSE
                  /\ pOp' = "push"
                  /\ link' = r.link
                  /\ freeList' = r.freeList
                  /\ mutex' = 0
                  /\ pc' = [pc EXCEPT ![t] = "idle"]
                  /\ pArg' = [pArg EXCEPT ![t] = NULL]
                  /\ owed' = IF live = {} THEN peakLive ELSE owed
                  /\ served' = IF live = {} THEN 0 ELSE served
                  /\ peakLive' = IF live = {} THEN 0 ELSE peakLive
                  /\ pStack' = Append(pStack, pArg[t])
    /\ UNCHANGED <<elemSize, chunkCount, chunks, live, pRet, pGrew, pPushed>>

\* ------------------------------------------------------------------ DebugAllocator

NoLocal == [ptr |-> NULL, size |-> 0, file |-> "", line |-> 0,
            isArray |-> FALSE, stale |-> FALSE]

\* nothing written to std::cerr by ReportLeaks
NoReport == [leaks |-> {}, count |-> 0, noLeaks |-> FALSE, peak |-> 0]

\* the map without the entry of ptr
Erase(as, ptr) == [a \in DOMAIN as \ {ptr} |-> as[a]]

\* the blocks of the heap share no byte with [base, base + n)
HeapFree(hp, base, n) ==
    /\ base \notin DOMAIN hp
    /\ \A b \in DOMAIN hp : base + n <= b \/ b + hp[b] <= base

\* what std::malloc(n) may answer: null, or a block apart from those given out
TrackMallocAnswers(hp, n) ==
    {NULL} \cup {b \in TrackBases : BlockFits(b, n) /\ HeapFree(hp, b, n)}

\* AllocationInfo{ size, file, line, isArray }
AllocationInfo(size, file, line, isArray) ==
    [size |-> size, file |-> file, line |-> line, isArray |-> isArray]

\* Allocate's bookkeeping leaving _peak alone
TrackAllocateNoPeak(as, total, peak, ptr, info) ==
    [allocs |-> (ptr :> info) @@ as,
     total |-> WAdd(total, info.size),
     peak |-> peak]

\* Allocate's bookkeeping setting _peak to the new _total
TrackAllocatePeakFollowsTotal(as, total, peak, ptr, info) ==
    [allocs |-> (ptr :> info) @@ as,
     total |-> WAdd(total, info.size),
     peak |-> WAdd(total, info.size)]

\* Allocate, lines 49-51: _allocs[ptr] = {...}; _total += size;
\* if (_peak < _total) _peak = _total
TrackAllocate(as, total, peak, ptr, info) ==
    LET newTotal == WAdd(total, info.size)
    IN [allocs |-> (ptr :> info) @@ as,
        total |-> newTotal,
        peak |-> IF peak < newTotal THEN newTotal ELSE peak]

\* Free's bookkeeping leaving the entry in the map
TrackFreeKeepsEntry(as, total, ptr, isArray) ==
    IF ptr \in DOMAIN as
    THEN [allocs |-> as,
          total |-> WSub(total, as[ptr].size),
          diag |-> IF as[ptr].isArray # isArray THEN "freeMismatch" ELSE "free"]
    ELSE [allocs |-> as, total |-> total, diag |-> "freeUnknown"]

\* Free's bookkeeping without the test of the shape
TrackFreeIgnoresShape(as, total, ptr, isArray) ==
    IF ptr \in DOMAIN as
    THEN [allocs |-> Erase(as, ptr),
          total |-> WSub(total, as[ptr].size),
          diag |-> "free"]
    ELSE [allocs |-> as, total |-> total, diag |-> "freeUnknown"]

\* Free's bookkeeping taking the bytes asked for by the caller off the total
\* when it does not find the pointer
TrackFreeCountsUnknown(as, total, ptr, isArray) ==
    IF ptr \in DOMAIN as
    THEN [allocs |-> Erase(as, ptr),
          total |-> WSub(total, as[ptr].size),
          diag |-> IF as[ptr].isArray # isArray THEN "freeMismatch" ELSE "free"]
    ELSE [allocs |-> as, total |-> WSub(total, PtrSize), diag |-> "freeUnknown"]

\* Free's bookkeeping leaving _total as it was
TrackFreeKeepsTotal(as, total, ptr, isArray) ==
    IF ptr \in DOMAIN as
    THEN [allocs |-> Erase(as, ptr),
          total |-> total,
          diag |-> IF as[ptr].isArray # isArray THEN "freeMismatch" ELSE "free"]
    ELSE [allocs |-> as, total |-> total, diag |-> "freeUnknown"]

\* Free, lines 66-79: find; the mismatch diagnostic; _total -= size; erase;
\* or the unknown-pointer diagnostic
TrackFree(as, total, ptr, isArray) ==
    IF ptr \in DOMAIN as
    THEN [allocs |-> Erase(as, ptr),
          total |-> WSub(total, as[ptr].size),
          diag |-> IF as[ptr].isArray # isArray THEN "freeMismatch" ELSE "free"]
    ELSE [allocs |-> as, total |-> total, diag |-> "freeUnknown"]

\* Free without its first line
TrackFreeNeverReturnsEarly(ptr) == FALSE

\* Free, line 63: if (!ptr) return
TrackFreeReturnsEarly(ptr) == ptr = NULL

\* ReportLeaks listing the allocations made with new only
ReportLeaksScalarsOnly(as, peak) ==
    [leaks |-> {[addr |-> a, size |-> as[a].size, file |-> as[a].file,
                 line |-> as[a].line, isArray |-> as[a].isArray] :
                   a \in {x \in DOMAIN as : ~as[x].isArray}},
     count |-> Cardinality(DOMAIN as),
     noLeaks |-> (DOMAIN as = {}),
     peak |-> peak]

\* ReportLeaks, lines 91-104: the entries of the map, or "No memory leaks
\* detected."; then the peak
ReportLeaks(as, peak) ==
    [leaks |-> {[addr |-> a, size |-> as[a].size, file |-> as[a].file,
                 line |-> as[a].line, isArray |-> as[a].isArray] :
                   a \in DOMAIN as},
     count |-> Cardinality(DOMAIN as),
     noLeaks |-> (DOMAIN as = {}),
     peak |-> peak]

\* the DebugAllocator as constructed, no call in progress
TrackMembers ==
    /\ tAllocs = <<>>
    /\ tTotal = 0
    /\ tPeak = 0
    /\ tMutex = 0
    /\ tPc = [t \in TrackThreads |-> "idle"]
    /\ tLocal = [t \in TrackThreads |-> NoLocal]
    /\ tLive = {}
    /\ tOp = "init"
    /\ tGiven = <<>>
    /\ tReport = NoReport
    /\ tFault = FALSE
    /\ tFreed = {}
    /\ stales = 0

\* a DebugAllocator object used through its member functions; the program
\* may hold one block of its own
TrackStart ==
    /\ TrackMembers
    /\ wired = FALSE
    /\ \E own \in BOOLEAN :
          /\ heap = IF own THEN (ForeignBlock.addr :> ForeignBlock.size) ELSE <<>>
          /\ foreign = IF own THEN {ForeignBlock.addr} ELSE {}

\* the _DEBUG build, lines 115-167: gDebugAllocator behind the global
\* operator new(size, file, line), operator delete and operator delete[]
DebugStart ==
    /\ TrackMembers
    /\ wired = TRUE
    /\ heap = <<>>
    /\ foreign = {}

\* Allocate recording whatever std::malloc answered
TrackAllocateRecordsAlways(ptr) == TRUE

\* Allocate, line 47: if (ptr)
TrackAllocateRecords(ptr) == ptr # NULL

\* Allocate(size, file, line, isArray), lines 46-47 and 53: std::malloc(size);
\* a null answer is returned
TrackAllocMallocStep(t, size, site, isArray) ==
    \E ptr \in TrackMallocAnswers(heap, size) :
       /\ ~tFault
       /\ tPc[t] = "idle"
       /\ IF ~TrackAllocateRecords(ptr)
          THEN /\ tOp' = "allocNull"
               /\ UNCHANGED <<tPc, tLocal, heap>>
          ELSE /\ tOp' = "malloc"
               /\ heap' = (ptr :> size) @@ heap
               /\ tPc' = [tPc EXCEPT ![t] = "aLock"]
               /\ tLocal' = [tLocal EXCEPT ![t] =
                               [ptr |-> ptr, size |-> size, file |-> site.file,
                                line |-> site.line, isArray |-> isArray,
                                stale |-> FALSE]]
       /\ tReport' = NoReport
       /\ UNCHANGED <<tAllocs, tTotal, tPeak, tMutex, foreign, tLive, tGiven,
                      wired, tFault>>

\* Allocate called with any of the sizes, sites and shapes
TrackAllocMalloc(t) ==
    \E size \in TrackSizes : \E isArray \in BOOLEAN : \E site \in TrackSites :
       TrackAllocMallocStep(t, size, site, isArray)

\* Allocate called where frees of freed addresses are followed
StaleAllocMalloc(t) ==
    \E size \in StaleSizes : \E isArray \in BOOLEAN : \E site \in StaleSites :
       TrackAllocMallocStep(t, size, site, isArray)

\* Allocate, line 48: the lock is taken
TrackAllocLock(t) ==
    LET g == LockGuard(tMutex, t)
    IN /\ ~tFault
       /\ tPc[t] = "aLock"
       /\ g.ok
       /\ tMutex' = g.mutex
       /\ tPc' = [tPc EXCEPT ![t] = "aCommit"]
       /\ tOp' = "lock"
       /\ tReport' = NoReport
       /\ UNCHANGED <<tAllocs, tTotal, tPeak, tLocal, heap, foreign, tLive,
                      tGiven, wired, tFault>>

\* Allocate, lines 49-53: the entry, the total, the peak; the lock is
\* released and ptr returned
TrackAllocCommit(t) ==
    LET l == tLocal[t]
        info == AllocationInfo(l.size, l.file, l.line, l.isArray)
        r == TrackAllocate(tAllocs, tTotal, tPeak, l.ptr, info)
    IN /\ ~tFault
       /\ tPc[t] = "aCommit"
       /\ tAllocs' = r.allocs
       /\ tTotal' = r.total
       /\ tPeak' = r.peak
       /\ tMutex' = 0
       /\ tPc' = [tPc EXCEPT ![t] = "idle"]
       /\ tLocal' = [tLocal EXCEPT ![t] = NoLocal]
       /\ tLive' = tLive \cup {l.ptr}
       /\ tGiven' = (l.ptr :> info) @@ tGiven
       /\ tOp' = "alloc"
       /\ tReport' = NoReport
       /\ UNCHANGED <<heap, foreign, wired, tFault>>

\* Free(nullptr, isArray), line 63
TrackFreeNull(t) ==
    \E isArray \in BOOLEAN :
       /\ ~tFault
       /\ tPc[t] = "idle"
       /\ TrackFreeReturnsEarly(NULL)
       /\ tOp' = "freeNull"
       /\ tReport' = NoReport
       /\ UNCHANGED <<tAllocs, tTotal, tPeak, tMutex, tPc, tLocal, heap, foreign,
                      tLive, tGiven, wired, tFault>>

\* Free(ptr, isArray), lines 63-65, for a given ptr: the call is taken when
\* its lock_guard gets the mutex
TrackFreeLockStep(t, ptr, isArray, stale) ==
    LET g == LockGuard(tMutex, t)
    IN /\ ~tFault
       /\ tPc[t] = "idle"
       /\ ~TrackFreeReturnsEarly(ptr)
       /\ g.ok
       /\ tMutex' = g.mutex
       /\ tPc' = [tPc EXCEPT ![t] = "fBody"]
       /\ tLocal' = [tLocal EXCEPT ![t] =
                       [NoLocal EXCEPT !.ptr = ptr, !.isArray = isArray,
                                       !.stale = stale]]
       /\ tLive' = tLive \ {ptr}
       /\ tGiven' = Erase(tGiven, ptr)
       /\ foreign' = foreign \ {ptr}
       /\ tOp' = "lock"
       /\ tReport' = NoReport
       /\ UNCHANGED <<tAllocs, tTotal, tPeak, heap, wired, tFault>>

\* Free(ptr, isArray): ptr is null, an address Allocate returned and the
\* caller has not freed, or a block of the program's own
TrackFreeLock(t) ==
    \E ptr \in {NULL} \cup tLive \cup foreign : \E isArray \in BOOLEAN :
       /\ TrackFreeLockStep(t, ptr, isArray, FALSE)
       /\ UNCHANGED staleVars

\* Free, lines 66-82: the bookkeeping, std::free(ptr), the lock released.
\* In the _DEBUG build the erase of line 75 gives the node of the entry to
\* operator delete, which is Free again (line 147) with the mutex held.
\* std::free on an address that is no block of the heap may end the process.
TrackFreeBody(t) ==
    LET l == tLocal[t]
        r == TrackFree(tAllocs, tTotal, l.ptr, l.isArray)
    IN /\ ~tFault
       /\ tPc[t] = "fBody"
       /\ tAllocs' = r.allocs
       /\ tTotal' = r.total
       /\ tOp' = r.diag
       /\ tReport' = NoReport
       /\ IF wired /\ l.ptr \in DOMAIN tAllocs
          THEN /\ tPc' = [tPc EXCEPT ![t] = "nLock"]
               /\ UNCHANGED <<tMutex, tLocal, heap, tFault>>
          ELSE /\ \E fault \in (IF l.ptr \in DOMAIN heap \/ l.ptr = NULL
                                THEN {FALSE} ELSE BOOLEAN) :
                     tFault' = fault
               /\ heap' = Erase(heap, l.ptr)
               /\ tMutex' = 0
               /\ tPc' = [tPc EXCEPT ![t] = "idle"]
               /\ tLocal' = [tLocal EXCEPT ![t] = NoLocal]
       /\ UNCHANGED <<tPeak, foreign, tLive, tGiven, wired>>

\* Free(node, false) called by operator delete from inside Free, line 65:
\* lock() on a std::mutex its caller owns. The thread waits for itself, or
\* lock() throws std::system_error out of the noexcept operator delete and
\* std::terminate ends the process: the step below
TrackNestedLock(t) ==
    /\ ~tFault
    /\ tPc[t] = "nLock"
    /\ ~LockGuard(tMutex, t).ok
    /\ tFault' = TRUE
    /\ tOp' = "abort"
    /\ tReport' = NoReport
    /\ UNCHANGED <<tAllocs, tTotal, tPeak, tMutex, tPc, tLocal, heap, foreign,
                   tLive, tGiven, wired>>

\* an ordinary new expression: operator new(size_t) is not replaced (lines
\* 127-140 declare the forms with file and line only), the block comes from
\* the heap and the tracker is not told
TrackPlainNew(t) ==
    \E size \in TrackSizes : \E ptr \in TrackMallocAnswers(heap, size) \ {NULL} :
       /\ ~tFault
       /\ tPc[t] = "idle"
       /\ heap' = (ptr :> size) @@ heap
       /\ foreign' = foreign \cup {ptr}
       /\ tOp' = "plainNew"
       /\ tReport' = NoReport
       /\ UNCHANGED <<tAllocs, tTotal, tPeak, tMutex, tPc, tLocal, tLive, tGiven,
                      wired, tFault>>

\* ReportLeaks, line 90: the lock is taken
TrackReportLock(t) ==
    LET g == LockGuard(tMutex, t)
    IN /\ ~tFault
       /\ tPc[t] = "idle"
       /\ g.ok
       /\ tMutex' = g.mutex
       /\ tPc' = [tPc EXCEPT ![t] = "rBody"]
       /\ tOp' = "lock"
       /\ tReport' = NoReport
       /\ UNCHANGED <<tAllocs, tTotal, tPeak, tLocal, heap, foreign, tLive,
                      tGiven, wired, tFault>>

\* ReportLeaks, lines 91-105: the report is written, the lock released
TrackReportBody(t) ==
    /\ ~tFault
    /\ tPc[t] = "rBody"
    /\ tReport' = ReportLeaks(tAllocs, tPeak)
    /\ tMutex' = 0
    /\ tPc' = [tPc EXCEPT ![t] = "idle"]
    /\ tOp' = "report"
    /\ UNCHANGED <<tAllocs, tTotal, tPeak, tLocal, heap, foreign, tLive, tGiven,
                   wired, tFault>>

\* Free(ptr, isArray) of an address the caller has not freed, the address
\* being remembered as freed
TrackFreeLockNoting(t) ==
    \E ptr \in tLive \cup foreign : \E isArray \in BOOLEAN :
       /\ TrackFreeLockStep(t, ptr, isArray, FALSE)
       /\ tFreed' = tFreed \cup ({ptr} \cap tLive)
       /\ UNCHANGED stales

\* Free(ptr, isArray) a second time: ptr is an address Allocate returned and
\* the caller has passed to Free already
TrackFreeStaleLock(t) ==
    \E ptr \in tFreed : \E isArray \in BOOLEAN :
       /\ stales < MaxStale
       /\ TrackFreeLockStep(t, ptr, isArray, TRUE)
       /\ stales' = stales + 1
       /\ UNCHANGED tFreed

\* ------------------------------------------------------------------ specifications

\* no DebugAllocator is in use
TrackIdle ==
    /\ tAllocs = <<>>
    /\ tTotal = 0
    /\ tPeak = 0
    /\ tMutex = 0
    /\ tPc = [t \in TrackThreads |-> "idle"]
    /\ tLocal = [t \in TrackThreads |-> NoLocal]
    /\ heap = <<>>
    /\ foreign = {}
    /\ tLive = {}
    /\ tOp = "idle"
    /\ tGiven = <<>>
    /\ tReport = NoReport
    /\ wired = FALSE
    /\ tFault = FALSE
    /\ tFreed = {}
    /\ stales = 0

\* no pool is constructed
PoolIdle ==
    /\ elemSize = 0
    /\ chunkCount = 0
    /\ chunks = <<>>
    /\ freeList = NULL
    /\ link = <<>>
    /\ mutex = 0
    /\ pc = [t \in PoolThreads |-> "idle"]
    /\ pArg = [t \in PoolThreads |-> NULL]
    /\ pFault = FALSE
    /\ live = {}
    /\ pOp = "idle"
    /\ pRet = NULL
    /\ pGrew = FALSE
    /\ pPushed = 0
    /\ peakLive = 0
    /\ owed = 0
    /\ served = 0
    /\ pStack = <<>>


\* the arena alone: the frame allocator is not constructed
FrameIdle ==
    /\ buffers = <<NULL, NULL>>
    /\ offsets = <<0, 0>>
    /\ current = 0
    /\ bufferSize = 0
    /\ fOp = "idle"
    /\ fRet = NULL
    /\ fReq = <<0, 0>>
    /\ begun = FALSE
    /\ cycleSum = 0
    /\ cycleOk = TRUE
    /\ begins = 0
    /\ watch = NoRange
    /\ prevWatch = NoRange

\* the frame allocator alone: the arena is not constructed
ArenaIdle ==
    /\ head = NULL
    /\ tail = NULL
    /\ capacity = 0
    /\ owned = FALSE
    /\ aOp = "idle"
    /\ aRet = NULL
    /\ aReq = <<0, 0>>
    /\ aEnv = "none"
    /\ aGrown = 0
    /\ allocs = <<>>
    /\ clean = TRUE
    /\ first = NoFirst
    /\ relocated = FALSE
    /\ replay = FALSE
    /\ grows = 0
    /\ scen = 0

ArenaInit == ArenaStart /\ FrameIdle /\ PoolIdle /\ TrackIdle

ArenaNext ==
    \/ ArenaAllocate /\ UNCHANGED <<frameVars, poolVars, trackVars>>
    \/ ArenaReset /\ UNCHANGED <<frameVars, poolVars, trackVars>>

ArenaSpec == ArenaInit /\ [][ArenaNext]_vars

FrameInit == FrameStart /\ ArenaIdle /\ PoolIdle /\ TrackIdle

FrameNext ==
    \/ FrameBegin /\ UNCHANGED <<arenaVars, poolVars, trackVars>>
    \/ FrameAlloc /\ UNCHANGED <<arenaVars, poolVars, trackVars>>

FrameSpec == FrameInit /\ [][FrameNext]_vars

CycleNext ==
    \/ CycleBegin /\ UNCHANGED <<arenaVars, poolVars, trackVars>>
    \/ CycleAlloc /\ UNCHANGED <<arenaVars, poolVars, trackVars>>

\* the frame allocator followed over MaxBegins cycles
FrameCycleSpec == FrameInit /\ [][CycleNext]_vars

WideInit == WideStart /\ ArenaIdle /\ PoolIdle /\ TrackIdle

\* a frame allocator of wide buffers followed over MaxBegins cycles
FrameWideSpec == WideInit /\ [][CycleNext]_vars

PoolInit == PoolStart /\ ArenaIdle /\ FrameIdle /\ TrackIdle

PoolNext ==
    \E t \in PoolThreads :
       \/ PoolAllocLock(t) /\ UNCHANGED <<arenaVars, frameVars, trackVars>>
       \/ PoolAllocGrow(t) /\ UNCHANGED <<arenaVars, frameVars, trackVars>>
       \/ PoolAllocPop(t) /\ UNCHANGED <<arenaVars, frameVars, trackVars>>
       \/ PoolDeallocLock(t) /\ UNCHANGED <<arenaVars, frameVars, trackVars>>
       \/ PoolDeallocPush(t) /\ UNCHANGED <<arenaVars, frameVars, trackVars>>

PoolSpec == PoolInit /\ [][PoolNext]_vars

TrackInit == TrackStart /\ ArenaIdle /\ FrameIdle /\ PoolIdle

TrackNext ==
    \E t \in TrackThreads :
       \/ TrackAllocMalloc(t) /\ UNCHANGED <<arenaVars, frameVars, poolVars, staleVars>>
       \/ TrackAllocLock(t) /\ UNCHANGED <<arenaVars, frameVars, poolVars, staleVars>>
       \/ TrackAllocCommit(t) /\ UNCHANGED <<arenaVars, frameVars, poolVars, staleVars>>
       \/ TrackFreeNull(t) /\ UNCHANGED <<arenaVars, frameVars, poolVars, staleVars>>
       \/ TrackFreeLock(t) /\ UNCHANGED <<arenaVars, frameVars, poolVars>>
       \/ TrackFreeBody(t) /\ UNCHANGED <<arenaVars, frameVars, poolVars, staleVars>>
       \/ TrackReportLock(t) /\ UNCHANGED <<arenaVars, frameVars, poolVars, staleVars>>
       \/ TrackReportBody(t) /\ UNCHANGED <<arenaVars, frameVars, poolVars, staleVars>>

TrackSpec == TrackInit /\ [][TrackNext]_vars

\* callers that may free an address twice
StaleNext ==
    \E t \in TrackThreads :
       \/ StaleAllocMalloc(t) /\ UNCHANGED <<arenaVars, frameVars, poolVars, staleVars>>
       \/ TrackAllocLock(t) /\ UNCHANGED <<arenaVars, frameVars, poolVars, staleVars>>
       \/ TrackAllocCommit(t) /\ UNCHANGED <<arenaVars, frameVars, poolVars, staleVars>>
       \/ TrackFreeLockNoting(t) /\ UNCHANGED <<arenaVars, frameVars, poolVars>>
       \/ TrackFreeStaleLock(t) /\ UNCHANGED <<arenaVars, frameVars, poolVars>>
       \/ TrackFreeBody(t) /\ UNCHANGED <<arenaVars, frameVars, poolVars, staleVars>>

TrackStaleSpec == TrackInit /\ [][StaleNext]_vars

DebugInit == DebugStart /\ ArenaIdle /\ FrameIdle /\ PoolIdle

\* the program of the _DEBUG build: RG_NEW, ordinary new, delete, delete[]
\* and ReportLeaks
DebugNext ==
    \E t \in TrackThreads :
       \/ TrackAllocMalloc(t) /\ UNCHANGED <<arenaVars, frameVars, poolVars, staleVars>>
       \/ TrackAllocLock(t) /\ UNCHANGED <<arenaVars, frameVars, poolVars, staleVars>>
       \/ TrackAllocCommit(t) /\ UNCHANGED <<arenaVars, frameVars, poolVars, staleVars>>
       \/ TrackPlainNew(t) /\ UNCHANGED <<arenaVars, frameVars, poolVars, staleVars>>
       \/ TrackFreeNull(t) /\ UNCHANGED <<arenaVars, frameVars, poolVars, staleVars>>
       \/ TrackFreeLock(t) /\ UNCHANGED <<arenaVars, frameVars, poolVars>>
       \/ TrackFreeBody(t) /\ UNCHANGED <<arenaVars, frameVars, poolVars, staleVars>>
       \/ TrackNestedLock(t) /\ UNCHANGED <<arenaVars, frameVars, poolVars, staleVars>>
       \/ TrackReportLock(t) /\ UNCHANGED <<arenaVars, frameVars, poolVars, staleVars>>
       \/ TrackReportBody(t) /\ UNCHANGED <<arenaVars, frameVars, poolVars, staleVars>>

DebugBuildSpec == DebugInit /\ [][DebugNext]_vars

\* the steps of thread t that need no lock to be free: a runnable thread is
\* scheduled
TrackRun(t) ==
    /\ TrackAllocCommit(t) \/ TrackFreeBody(t) \/ TrackReportBody(t)
    /\ UNCHANGED <<arenaVars, frameVars, poolVars, staleVars>>

\* thread t inside Allocate getting the mutex
TrackAcquire(t) ==
    /\ TrackAllocLock(t)
    /\ UNCHANGED <<arenaVars, frameVars, poolVars, staleVars>>

\* fair scheduling: a thread that can run does, and a thread that waits for
\* the mutex gets it if it is free again and again
TrackFairness ==
    \A t \in TrackThreads : WF_vars(TrackRun(t)) /\ SF_vars(TrackAcquire(t))

\* the object used directly, under fair scheduling
TrackFairSpec == TrackSpec /\ TrackFairness

\* the _DEBUG build under fair scheduling
DebugBuildFairSpec == DebugBuildSpec /\ TrackFairness

\* ------------------------------------------------------------------ LinearArena properties

\* two recorded allocations share no byte
Disjoint(a, b) == a.addr + a.size <= b.addr \/ b.addr + b.size <= a.addr

RECURSIVE SumPadded(_)
SumPadded(as) ==
    IF as = <<>> THEN 0 ELSE as[1].size + as[1].pad + SumPadded(Tail(as))

\* C1: after any sequence of Allocate and Reset calls, on an owned or a
\* borrowed arena, growth and relocation included,
\* head <= tail <= head + capacity.
C1_HeadTailCapacity ==
    aOp # "idle" => (head <= tail /\ tail <= head + capacity)

\* C2: while every Allocate since construction or the last Reset fitted in
\* the capacity (no growth), the returned ranges are pairwise disjoint, each
\* address is a multiple of its alignment, and Size() is the sum of the
\* requested sizes and the padding inserted before each.
C2_FittingAllocations ==
    clean =>
        /\ \A i, j \in 1..Len(allocs) : i < j => Disjoint(allocs[i], allocs[j])
        /\ \A i \in 1..Len(allocs) : allocs[i].addr % allocs[i].align = 0
        /\ Size(head, tail) = SumPadded(allocs)

\* two fitting allocations, the second one behind padding
C2_Witness ==
    /\ clean
    /\ Len(allocs) = 2
    /\ allocs[2].pad > 0
    /\ Size(head, tail) = SumPadded(allocs)

\* C3: an Allocate that fails returns null and leaves head, tail, capacity
\* and the owned flag as they were.
C3_FailureNoEffect ==
    [][aOp' = "fail" =>
         /\ aRet' = NULL
         /\ head' = head
         /\ tail' = tail
         /\ capacity' = capacity
         /\ owned' = owned]_vars

\* an owned arena holding an allocation, whose realloc was refused
C3_Witness ==
    /\ aOp = "fail"
    /\ owned
    /\ aEnv = "refused"
    /\ Len(allocs) > 0
    /\ aRet = NULL

\* C4: on a borrowed arena, an Allocate whose padding plus size exceeds the
\* remaining capacity returns null, whatever the size.
C4_BorrowedNeverGrows ==
    [][(/\ ~owned
        /\ aOp' \in {"fit", "grow", "fail"}
        /\ ~TrueFit(head, tail, capacity, aReq'[1], aReq'[2]))
       => aRet' = NULL]_vars

\* C5 as stated: the capacity after a growth is the larger of double the
\* capacity before and the bytes the request requires.
C5_LargerOfDoubleAndRequired ==
    [][aOp' = "grow" =>
         LET pad == PaddingAt(tail, aReq'[2])
             size == aReq'[1]
         IN \/ capacity' = Max(2 * capacity, pad + size)
            \/ capacity' = Max(2 * capacity, Size(head, tail) + pad + size)]_vars

\* C5 amended: the capacity after a growth is the capacity before plus the
\* larger of double the capacity before and padding + size, in size_t
\* arithmetic; unless those sums wrap, it is at least three times the
\* capacity before and at least the capacity before plus padding + size.
C5_GrowthCapacity ==
    [][aOp' = "grow" =>
         LET pad == PaddingAt(tail, aReq'[2])
             size == aReq'[1]
             add == Max(WMul2(capacity), WAdd(pad, size))
         IN /\ capacity' = WAdd(capacity, add)
            /\ (capacity + Max(2 * capacity, pad + size) < WordModulus =>
                  /\ capacity' >= 3 * capacity
                  /\ capacity' >= capacity + pad + size)]_vars

\* the second Allocate(40, 8) of the 64-byte scenario has grown the arena
C5_Witness ==
    /\ aOp = "grow"
    /\ scen = 3
    /\ capacity = 64 + 128

\* C6 as stated: Reset() followed by Allocate with the size and alignment of
\* the first allocation ever made returns, when it returns an address, the
\* address that first allocation returned.
C6_ResetReturnsFirstAddress ==
    (/\ replay
     /\ aReq = <<first.size, first.align>>
     /\ aOp \in {"fit", "grow"})
    => aRet = first.addr

\* C6 amended: it does so when the buffer has not been moved by a growth
\* since the first allocation was returned.
C6_ResetReturnsFirstUnlessMoved ==
    (/\ replay
     /\ aReq = <<first.size, first.align>>
     /\ aOp \in {"fit", "grow"}
     /\ ~relocated)
    => aRet = first.addr

\* an owned arena that grew in place, reset, and served the first request again
C6_Witness ==
    /\ replay
    /\ aReq = <<first.size, first.align>>
    /\ aOp = "fit"
    /\ owned
    /\ grows > 0
    /\ ~relocated
    /\ aRet = first.addr

\* C7: Reset() always succeeds and leaves Size() = 0; the owned 64-byte
\* arena serves Allocate(40, 8) with Size() = 40, a second Allocate(40, 8)
\* (unless realloc refuses) with Capacity() >= 128 and Size() = 80, and after
\* Reset() has Size() = 0 and Capacity() >= 128.
C7_ResetAndScenario ==
    /\ (aOp # "idle" => ENABLED ArenaReset)
    /\ (aOp = "reset" => Size(head, tail) = 0)
    /\ (scen = 2 => aOp = "fit" /\ aRet # NULL /\ Size(head, tail) = 40)
    /\ (scen = 3 => aRet # NULL /\ capacity >= 128 /\ Size(head, tail) = 80)
    /\ (scen = 4 => aOp = "reset" /\ Size(head, tail) = 0 /\ capacity >= 128)
    /\ (scen = 5 => aOp = "fail" /\ aEnv = "refused")

\* the scenario has run to its end
C7_Witness == scen = 4 /\ capacity >= 128 /\ tail = head

\* C8: capacity and head change only in the growth step of an Allocate on
\* an owned arena.
C8_CapacityChangesOnlyInGrowth ==
    [][(capacity' # capacity \/ head' # head) => (owned /\ aOp' = "grow")]_vars

\* a growth that moved the buffer and enlarged it
C8_Witness ==
    /\ aOp = "grow"
    /\ relocated
    /\ owned
    /\ grows > 0

\* C9: a growth step leaves Size() as it was, and every allocation made
\* before it is found at new_head + (old_address - old_head).
C9_GrowthPreservesOffsets ==
    [][aOp' = "grow" =>
         /\ aGrown' = Size(head, tail)
         /\ \A i \in 1..Len(allocs) :
               /\ allocs'[i].addr = WAdd(head', WSub(allocs[i].addr, head))
               /\ (allocs[i].live => allocs'[i].live)]_vars

\* ------------------------------------------------------------------ FrameArena properties

\* both buffers were allocated by the constructor
FrameBuilt == buffers[1] # NULL /\ buffers[2] # NULL

\* C10 as stated: after BeginFrame (on a frame arena whose buffers were
\* allocated), allocations whose sizes total exactly the per-buffer capacity
\* all succeed, and a following allocation of one more byte returns null.
C10_SizesUpToCapacitySucceed ==
    /\ (/\ FrameBuilt
        /\ begun
        /\ cycleSum = bufferSize
        /\ cycleOk
        /\ fOp \in {"ok", "fail"})
       => fRet # NULL
    /\ (FrameBuilt /\ begun /\ cycleSum = bufferSize + 1 /\ cycleOk /\ fReq[1] = 1)
       => fRet = NULL

\* C10 amended: an Allocate whose padding plus size fits in what the offset
\* counter leaves of the per-buffer capacity takes the success path, returns
\* the aligned address and advances the counter by padding + size; once the
\* counter equals the capacity, Allocate of one byte returns null.
C10_PaddedFitSucceeds ==
    [][fOp' \in {"ok", "fail"} =>
         LET off == offsets[Cur(current)]
             pad == PaddingAt(WAdd(buffers[Cur(current)], off), fReq'[2])
             size == fReq'[1]
         IN /\ (off + pad + size <= bufferSize =>
                  /\ fOp' = "ok"
                  /\ fRet' = WAdd(WAdd(buffers[Cur(current)], off), pad)
                  /\ offsets'[Cur(current)] = (off + pad + size) % OffModulus)
            /\ (off = bufferSize /\ size = 1 => fOp' = "fail" /\ fRet' = NULL)]_vars

\* a 16-byte buffer filled exactly in its cycle, then one byte refused
C10_Witness ==
    /\ FrameBuilt
    /\ begun
    /\ bufferSize = 16
    /\ offsets[Cur(current)] = bufferSize
    /\ cycleSum = bufferSize + 1
    /\ cycleOk
    /\ fOp = "fail"
    /\ fReq[1] = 1
    /\ fRet = NULL

\* the range the last Allocate returned
LastRange == [addr |-> fRet, size |-> fReq[1]]

\* C11: a byte range returned by Allocate in one cycle is not returned
\* again, wholly or partly, by any Allocate of the next cycle: a non-null
\* range returned after BeginFrame shares no byte with any range returned
\* non-null in the cycle that BeginFrame ended.
C11_RangesSurviveNextCycle ==
    [][(fOp' = "ok" /\ fRet' # NULL /\ prevWatch # NoRange)
          => Disjoint(prevWatch, LastRange')]_vars

\* C12: BeginFrame flips the active index and zeroes the offset of the newly
\* active buffer only, the other offset keeping its value; no Allocate,
\* returning an address or null, changes the index; the index is 0 or 1 and
\* is the parity of the number of BeginFrame calls.
C12_BeginFlipsIndex ==
    /\ [](current \in {0, 1} /\ current = begins % 2)
    /\ [][/\ fOp' = "begin" =>
               /\ current' = 1 - current
               /\ offsets'[Cur(current')] = 0
               /\ offsets'[Cur(current)] = offsets[Cur(current)]
          /\ fOp' \in {"ok", "fail"} => current' = current
          /\ current' # current => fOp' = "begin"]_vars

\* the second BeginFrame is back on buffer 0, buffer 1 keeping what the
\* cycle just ended took from it
C12_Witness ==
    /\ fOp = "begin"
    /\ begins = 2
    /\ current = 0
    /\ offsets[Cur(0)] = 0
    /\ offsets[Cur(1)] = 16
    /\ prevWatch # NoRange

\* ------------------------------------------------------------------ FixedPool properties

\* bytes of one chunk
ChunkBytes == WMul(elemSize, chunkCount)

\* the slot addresses of the chunk at block
SlotsOf(block) == {WAdd(block, WMul(i, elemSize)) : i \in 0..(chunkCount - 1)}

\* the slot addresses of all chunks
Slots == UNION {SlotsOf(chunks[k]) : k \in 1..Len(chunks)}

\* the free list read from p, at most fuel links followed
RECURSIVE Walk(_, _, _)
Walk(p, lk, fuel) ==
    IF p = NULL \/ fuel = 0 \/ p \notin DOMAIN lk
    THEN <<>>
    ELSE <<p>> \o Walk(lk[p], lk, fuel - 1)

\* the free list from its head, followed one link further than there are slots
FreeSeq == Walk(freeList, link, Len(chunks) * chunkCount + 1)

\* slots handed out, or handed back and not yet pushed
InUse == live \cup {pArg[t] : t \in {u \in PoolThreads : pc[u] = "dPush"}}

\* C13: under any interleaving of Allocate and Deallocate calls of several
\* threads, the live addresses never number more than slots-per-chunk times
\* the chunks created so far, and Allocate never returns an address that is
\* live (returned before and not passed to Deallocate since).
C13_LiveSlotsBoundedAndDistinct ==
    /\ [](Cardinality(live) <= chunkCount * Len(chunks))
    /\ [][(pOp' = "pop" /\ pRet' # NULL) => pRet' \notin live]_vars

\* C14: in every state every slot of every chunk is on the free list or in
\* use and not both, the free list read from its head ends, with no entry
\* twice, and free slots plus slots in use number chunks times
\* slots-per-chunk.
C14_SlotsFreeOrInUse ==
    LET free == {FreeSeq[i] : i \in 1..Len(FreeSeq)}
    IN ~pFault =>
       /\ \A slot \in Slots : (slot \in free) # (slot \in InUse)
       /\ Cardinality(free) = Len(FreeSeq)
       /\ Len(FreeSeq) <= Len(chunks) * chunkCount
       /\ Len(FreeSeq) + Cardinality(InUse) = Len(chunks) * chunkCount

\* C15: a chunk is created only by an Allocate that found the free list
\* empty; the Allocate that created one returns only after all chunkCount
\* slots were pushed, the last of them heading the free list and each linked
\* to the one before; Deallocate creates no chunk; the chunk list only grows.
C15_ChunksOnlyWhenExhausted ==
    [][/\ Len(chunks') >= Len(chunks)
       /\ SubSeq(chunks', 1, Len(chunks)) = chunks
       /\ chunks' # chunks =>
             /\ freeList = NULL
             /\ pOp' \in {"grow", "fault"}
             /\ \E t \in PoolThreads : pc[t] = "aCheck" /\ pc'[t] = "aPop"
       /\ pOp' = "push" => chunks' = chunks
       /\ (pOp' = "pop" /\ pGrew) =>
             LET block == chunks[Len(chunks)]
             IN /\ pPushed = chunkCount
                /\ chunkCount > 0 =>
                      freeList = WAdd(block, WMul(chunkCount - 1, elemSize))
                /\ \A i \in 1..(chunkCount - 1) :
                      link[WAdd(block, WMul(i, elemSize))]
                         = WAdd(block, WMul(i - 1, elemSize))]_vars

\* the third Allocate of a pool of two slots per chunk has created the
\* second chunk and is about to be served from it
C15_Witness ==
    /\ elemSize = 24
    /\ chunkCount = 2
    /\ Cardinality(live) = 2
    /\ Len(chunks) = 2
    /\ chunks[2] # NULL
    /\ pOp = "grow"
    /\ pGrew
    /\ \E t \in PoolThreads : pc[t] = "aPop"
    /\ pPushed = 2
    /\ Len(FreeSeq) = 2

\* C16: deallocated slots are reused before the pool grows: once k addresses
\* were live at once and all have been deallocated, none of the next k
\* Allocate calls creates a chunk (element size 24, 2 slots per chunk: three
\* Allocates, three Deallocates, three Allocates leave 2 chunks).
C16_ReuseBeforeGrowth ==
    [][(pOp' = "pop" /\ served < owed) => (~pGrew /\ chunks' = chunks)]_vars

\* the scenario: three slots of a 24-byte, 2-per-chunk pool were live, were
\* all deallocated, and are live again, two chunks standing
C16_Witness ==
    /\ elemSize = 24
    /\ chunkCount = 2
    /\ owed = 3
    /\ served = 3
    /\ Cardinality(live) = 3
    /\ live \subseteq Slots
    /\ Len(chunks) = 2
    /\ pOp = "pop"
    /\ ~pGrew

\* C17: Allocate and Deallocate hold the lock from their first access of the
\* free list and the chunk list to their last, chunk growth included: no two
\* threads are inside pool operations at once, and whatever changes the free
\* list, the chunk list or a link happens with the lock held by a thread
\* inside its call.
C17_ExclusiveLock ==
    /\ [](/\ Cardinality({t \in PoolThreads : pc[t] # "idle"}) <= 1
          /\ \A t \in PoolThreads : pc[t] # "idle" => mutex = t)
    /\ [][(freeList' # freeList \/ chunks' # chunks \/ link' # link) =>
             \E t \in PoolThreads : mutex = t /\ pc[t] # "idle"]_vars

\* one thread has grown the pool and holds the lock, slots of the other
\* thread's earlier calls still live
C17_Witness ==
    /\ mutex = 1
    /\ pc[1] = "aPop"
    /\ pc[2] = "idle"
    /\ pGrew
    /\ Len(chunks) = 2
    /\ live # {}
    /\ ~pFault

\* C18: every Allocate returns the address of a slot inside a chunk of the
\* pool, never null and never an address outside all chunks, also when it
\* has to grow the pool, whatever slots-per-chunk the constructor was given
\* and whether or not malloc gave the chunk; the process is not aborted.
C18_AllocateReturnsSlot ==
    /\ [](~pFault)
    /\ [][pOp' = "pop" =>
             (pRet' # NULL /\ InChunks(chunks', ChunkBytes', pRet'))]_vars

\* ------------------------------------------------------------------ TrackingAllocator properties

\* C19: whenever no operation holds the lock, under any interleaving of the
\* Allocate and Free calls of several threads, the keys of the map are
\* exactly the addresses a successful Allocate returned and that were not
\* passed to Free since.
C19_MapIsLiveSet ==
    tMutex = 0 => DOMAIN tAllocs = tLive

\* an allocation was freed, two allocations are held since, the second just
\* returned, and the lock is free
C19_Witness ==
    /\ tMutex = 0
    /\ Cardinality(tLive) = 2
    /\ DOMAIN tAllocs = tLive
    /\ tPeak > tTotal
    /\ tOp = "alloc"

\* C20: peak >= total in every state, after any sequence of Allocate and
\* Free calls, matching, mismatched, unknown or null.
C20_PeakAtLeastTotal ==
    tPeak >= tTotal

\* two allocations of 100 bytes made, one of them freed, then a Free of an
\* address unknown to the tracker: the total is under the peak
C20_Witness ==
    /\ tOp = "freeUnknown"
    /\ tPeak = 200
    /\ tTotal = 100
    /\ Cardinality(tLive) = 1

\* the entries of as, but the one of ptr
Others(as, ptr) == [a \in DOMAIN as \ {ptr} |-> as[a]]

C22_UnknownLeavesBooks ==
    [][\A t \in TrackThreads :
          (/\ tPc[t] = "fBody"
           /\ tPc'[t] # "fBody"
           /\ tLocal[t].ptr # NULL
           /\ tLocal[t].ptr \notin DOMAIN tAllocs)
          => /\ tOp' = "freeUnknown"
             /\ tAllocs' = tAllocs
             /\ tTotal' = tTotal
             /\ tPeak' = tPeak
             /\ tLocal[t].ptr \notin DOMAIN heap'
             /\ tPc'[t] = "idle"
             /\ tMutex' = 0]_vars

\* the program's own block was given to Free while two allocations are
\* tracked: the block is released, the books are as before
C22_Witness ==
    /\ tOp = "freeUnknown"
    /\ ForeignBlock.addr \notin DOMAIN heap
    /\ foreign = {}
    /\ Cardinality(DOMAIN tAllocs) = 2
    /\ tTotal = 108
    /\ tPeak = 108

\* C23: a double free (a second Free of an address that Allocate returned
\* and that was passed to Free once already) is reported with the
\* unknown-pointer diagnostic, in every interleaving with the Allocate and
\* Free calls of other threads.
C23_DoubleFreeReported ==
    [][\A t \in TrackThreads :
          (tPc[t] = "fBody" /\ tPc'[t] # "fBody" /\ tLocal[t].stale)
          => tOp' = "freeUnknown"]_vars

\* the lines ReportLeaks has to write for the addresses of tLive
LeaksOwed ==
    {[addr |-> a, size |-> tGiven[a].size, file |-> tGiven[a].file,
      line |-> tGiven[a].line, isArray |-> tGiven[a].isArray] : a \in tLive}

C25_FreeNullNoOp ==
    /\ [](\A t \in TrackThreads : tPc[t] = "fBody" => tLocal[t].ptr # NULL)
    /\ [][tOp' = "freeNull" =>
             /\ tAllocs' = tAllocs
             /\ tTotal' = tTotal
             /\ tPeak' = tPeak
             /\ heap' = heap
             /\ tMutex' = tMutex
             /\ tPc' = tPc]_vars

\* Free(nullptr) called while one allocation of 100 bytes is tracked and
\* another call is between its malloc and its lock
C25_Witness ==
    /\ tOp = "freeNull"
    /\ Cardinality(DOMAIN tAllocs) = 1
    /\ tTotal = 100
    /\ \E t \in TrackThreads : tPc[t] = "aLock"

\* C26: under fair scheduling every call that is inside Allocate, Free or
\* ReportLeaks gets its lock, completes and releases the lock, also in the
\* _DEBUG build, where the storage the map releases inside Free goes to
\* operator delete and so to Free again.
C26_CallsComplete ==
    \A t \in TrackThreads : [](tPc[t] # "idle" => <>(tPc[t] = "idle"))

\* C27: in the _DEBUG build ordinary new and delete expressions are both
\* routed through the tracker: every address that a delete expression brings
\* to Free is a key of the map, and no such Free writes the unknown-pointer
\* diagnostic.
C27_DeleteFindsEntry ==
    [][\A t \in TrackThreads :
          (wired /\ tPc[t] = "fBody" /\ tPc'[t] # "fBody")
          => (tLocal[t].ptr \in DOMAIN tAllocs /\ tOp' # "freeUnknown")]_vars

\* ------------------------------------------------------------------ LinearArena, address arithmetic

\* the tail the returned address is computed from: the tail before the
\* call, or the tail Grow left at the relocated buffer
TailAtRounding == IF aOp' = "grow" THEN WAdd(head', Size(head, tail)) ELSE tail

\* C28: every successful Allocate(size, alignment) with a power-of-two
\* alignment, growing and relocating ones included, returns the smallest
\* address a >= tail that is a multiple of alignment, which is
\* (tail + alignment-1) & ~(alignment-1), and sets tail to a + size.
C28_SmallestAlignedAddress ==
    [][aOp' \in {"fit", "grow"} =>
         /\ aRet' >= TailAtRounding
         /\ aRet' % aReq'[2] = 0
         /\ aRet' - TailAtRounding < aReq'[2]
         /\ aRet' = AlignUp(TailAtRounding, aReq'[2])
         /\ tail' = aRet' + aReq'[1]]_vars

\* C29: between two Reset calls Size() never decreases across an Allocate,
\* successful, failed or growing; only Reset lowers it.
C29_SizeMonotoneInEpoch ==
    [][Size(head', tail') < Size(head, tail) => aOp' = "reset"]_vars

\* ------------------------------------------------------------------ FrameArena, offset counter

\* C30: within one cycle, for every per-buffer size the constructor accepts
\* (sizes the 32-bit offset counter cannot hold included) and every request
\* size, the non-null ranges Allocate returns share no byte, each lies
\* inside the active buffer, and the offset of the active buffer never
\* exceeds the per-buffer size. (Stated for frame arenas whose two buffers
\* were allocated.)
C30_RangesDisjointInsideBuffer ==
    /\ [](FrameBuilt => offsets[Cur(current)] <= bufferSize)
    /\ [][(FrameBuilt /\ fOp' = "ok" /\ fRet' # NULL) =>
             /\ InBlock(buffers[Cur(current)], bufferSize, fRet', fReq'[1])
             /\ watch # NoRange => Disjoint(watch, LastRange')]_vars


\* C31: the free list is last-in-first-out: an Allocate that follows
\* Deallocate calls, no chunk created in between, returns the address pushed
\* last among those not yet returned, so Deallocate(p) then Allocate()
\* returns p and slots deallocated in order p1..pk come back in order pk..p1.
C31_LastInFirstOut ==
    [][(pOp' = "pop" /\ pStack # <<>>) => pRet' = pStack[Len(pStack)]]_vars

\* two slots of a 24-byte pool were deallocated one after the other and the
\* Allocate after them returned the second, the first still waiting
C31_Witness ==
    /\ elemSize = 24
    /\ pOp = "pop"
    /\ Len(pStack) = 1
    /\ pRet \in Slots
    /\ pStack[1] \in Slots
    /\ pRet # pStack[1]
    /\ pRet \in live
    /\ pStack[1] \notin live
    /\ freeList = pStack[1]


\* C32: for every element size passed to the constructor the per-slot size
\* is that size rounded up to a multiple of the pointer size, at least the
\* element size and at least one pointer, so the slots of each chunk are at
\* pairwise distinct addresses, each a whole pointer and a whole element
\* away from the next.
C32_SlotSizeHoldsElement ==
    \A elementSize \in PoolElemSizes :
       elemSize = Align(elementSize, PtrSize) =>
          /\ elemSize % PtrSize = 0
          /\ elemSize >= elementSize
          /\ elemSize >= PtrSize
          /\ \A k \in 1..Len(chunks) :
                /\ Cardinality(SlotsOf(chunks[k])) = chunkCount
                /\ \A i \in 1..(chunkCount - 1) :
                      WAdd(chunks[k], WMul(i, elemSize))
                         >= WAdd(chunks[k], WMul(i - 1, elemSize)) + PtrSize


\* the sizes recorded in the entries of the map as, added up
RECURSIVE RecordedBytes(_)
RecordedBytes(as) ==
    IF DOMAIN as = {}
    THEN 0
    ELSE LET a == CHOOSE x \in DOMAIN as : TRUE
         IN as[a].size + RecordedBytes(Erase(as, a))

C34_PeakIsLargestTotal ==
    /\ tPeak = tTotal
    /\ [][tPeak' = Max(tPeak, tTotal')]_vars
    /\ [][tPeak' >= tPeak]_vars
    /\ [][tOp' # "alloc" => tPeak' = tPeak]_vars

\* 100 bytes were allocated and freed, and an Allocate of 8 bytes has just
\* returned: the peak is still the 100 bytes
C34_Witness ==
    /\ tOp = "alloc"
    /\ tPeak = 100
    /\ tTotal = 8
    /\ Cardinality(DOMAIN tAllocs) = 1


====
